---- MODULE Spec2Model ----
(***************************************************************************)
(* Authorization gate of damai/authz.py: ensure_authorized and its helpers *)
(* (_fetch_repo_id, _fetch_latest_release_body, _extract_authz_token,      *)
(* _check_exp) and the fail-closed wrapper block_if_unauthorized_with_ui.  *)
(*                                                                         *)
(* Text is a sequence of characters.  A character is a record: either a    *)
(* literal character (the marker letters, ':', newline, space) or a        *)
(* "word", a maximal run of other characters, named by what the standard   *)
(* library makes of it (base64 -> bytes -> UTF-8 -> JSON).  JSON values    *)
(* keep their Python type, because int(), `in` and [] behave differently   *)
(* on each type.                                                           *)
(***************************************************************************)
EXTENDS Integers, Sequences, FiniteSets, TLC

(* ---------------------------- bounds ----------------------------------- *)
MaxBodyLen == 3      \* segments (marker, newline, space, word) per release body
MaxCalls == 2        \* consecutive direct calls of ensure_authorized
MaxClock == 5        \* last clock tick the wall clock can show
MaxExp == 2          \* largest exp (seconds) a token carries

(* ------------------------ program constants ---------------------------- *)
REPO_ID_LOCK == 1101896948
LockIsSet == TRUE                \* REPO_ID_LOCK is not None
TicksPerSec == 2                 \* resolution of time.time() below one second

OtherRepoId == REPO_ID_LOCK + 1  \* an id that is not the locked one

(* ------------------------- JSON values --------------------------------- *)
\* A JSON value as Python sees it after json.loads.  n is the integer that
\* int() yields when the conversion is defined: the number itself, the
\* number a float truncates to (the float is n + 0.5), or the number a
\* decimal string spells.
JInt(n) == [t |-> "int", n |-> n]
JFloat(n) == [t |-> "float", n |-> n]
JNumStr(n) == [t |-> "numstr", n |-> n]
JStr == [t |-> "str", n |-> 0]
JNull == [t |-> "null", n |-> 0]

\* int(v): [ok, v]; not ok stands for the ValueError / TypeError int() raises.
PyInt(v) ==
    IF v.t \in {"int", "float", "numstr"}
    THEN [ok |-> TRUE, v |-> v.n]
    ELSE [ok |-> FALSE, v |-> 0]

Keys == {"exp", "repo_id"}

\* A decoded JSON document.  keys: for an object its keys, for an array the
\* elements among Keys, for a string the Keys occurring in it as substrings.
Doc(t, keys, exp, rid) == [t |-> t, keys |-> keys, exp |-> exp, repo_id |-> rid]

ExpVals == {JInt(e) : e \in 1..MaxExp} \cup {JFloat(1), JStr}
RidVals == {JInt(REPO_ID_LOCK), JInt(OtherRepoId), JNumStr(REPO_ID_LOCK), JNull}

ObjectDocs ==
    {Doc("object", Keys, e, r) : e \in ExpVals, r \in RidVals}
    \cup {Doc("object", {"exp"}, JInt(MaxExp), JNull),
          Doc("object", {"repo_id"}, JNull, JInt(REPO_ID_LOCK)),
          Doc("object", {}, JNull, JNull)}

NonObjectDocs ==
    {Doc(t, {}, JNull, JNull) : t \in {"number", "null", "bool", "string", "array"}}
    \cup {Doc(t, Keys, JNull, JNull) : t \in {"string", "array"}}

Docs == ObjectDocs \cup NonObjectDocs

\* `key in obj`: [raises, v].  A number, null or bool is not iterable.
PyIn(key, obj) ==
    IF obj.t \in {"number", "null", "bool"}
    THEN [raises |-> TRUE, v |-> FALSE]
    ELSE [raises |-> FALSE, v |-> key \in obj.keys]

\* obj[key]: [ok, v].  Only a dict can be indexed by a string.
PyGetItem(obj, key) ==
    IF obj.t = "object" /\ key \in obj.keys
    THEN [ok |-> TRUE, v |-> IF key = "exp" THEN obj.exp ELSE obj.repo_id]
    ELSE [ok |-> FALSE, v |-> JNull]

(* ---------------------------- text ------------------------------------- *)
NoDoc == Doc("null", {}, JNull, JNull)
Char(c) == [c |-> c, enc |-> "lit", doc |-> NoDoc]
\* enc: "b64bad" (not base64), "utf8bad" (bytes are not UTF-8),
\* "jsonbad" (text is not JSON), "json" (decodes to doc).
Word(enc, doc) == [c |-> "word", enc |-> enc, doc |-> doc]

Words == {Word(e, NoDoc) : e \in {"b64bad", "utf8bad", "jsonbad"}}
         \cup {Word("json", d) : d \in Docs}

NL == Char("\n")
SP == Char(" ")
Marker == <<Char("A"), Char("U"), Char("T"), Char("H"), Char("Z"), Char(":")>>

IsSpace(ch) == ch \in {NL, SP}

RECURSIVE LStrip(_)
LStrip(s) == IF s # <<>> /\ IsSpace(Head(s)) THEN LStrip(Tail(s)) ELSE s

RECURSIVE RStrip(_)
RStrip(s) ==
    IF s # <<>> /\ IsSpace(s[Len(s)]) THEN RStrip(SubSeq(s, 1, Len(s) - 1)) ELSE s

\* variant: the slice is decoded as it stands, untrimmed
Strip_none(s) == s

\* str.strip()
Strip(s) == RStrip(LStrip(s))

\* s[i:j] with Python's 0-based, end-exclusive indices (0 <= i, j <= len).
Slice(s, i, j) == SubSeq(s, i + 1, j)

IsAt(s, sub, i) ==
    /\ i + Len(sub) <= Len(s)
    /\ \A k \in 1..Len(sub) : s[i + k] = sub[k]

\* s.find(sub, from): the lowest 0-based index >= from where sub occurs, or -1.
Find(s, sub, from) ==
    LET hits == {i \in from..Len(s) : IsAt(s, sub, i)}
    IN  IF hits = {} THEN -1 ELSE CHOOSE i \in hits : \A j \in hits : i <= j

(* ------------------------ remote responses ----------------------------- *)
\* What one GET yields.  net: "urlerror" (urlopen raised URLError: DNS,
\* refused connection, timeout while connecting), "httperror" (non-2xx),
\* "timeout" (the socket timed out while the status line or the body was
\* read: urlopen / resp.read() raise TimeoutError, which is no URLError),
\* "ok" (text received).  json: "invalid", "array" or "object".
MetaResp(net, json, hasId, id) == [net |-> net, json |-> json, hasId |-> hasId, id |-> id]
RelResp(net, json, hasBody, body) == [net |-> net, json |-> json, hasBody |-> hasBody, body |-> body]

NetFailures == {"urlerror", "httperror", "timeout"}

IdVals == {JInt(REPO_ID_LOCK), JInt(OtherRepoId), JNumStr(REPO_ID_LOCK), JFloat(REPO_ID_LOCK), JStr}

MetaResponses ==
    {MetaResp(n, "invalid", FALSE, JNull) : n \in NetFailures}
    \cup {MetaResp("ok", j, FALSE, JNull) : j \in {"invalid", "array", "object"}}
    \cup {MetaResp("ok", "object", TRUE, v) : v \in IdVals}

Segments == {"marker", "nl", "sp", "word"}

RECURSIVE ShapesOfLen(_)
\* the segment sequences of length n in which no two words are adjacent
\* (two adjacent words are one word)
ShapesOfLen(n) ==
    IF n = 0 THEN {<<>>}
    ELSE {Append(sh, g) : sh \in ShapesOfLen(n - 1), g \in Segments}
         \ {sh \in [1..n -> Segments] : n > 1 /\ sh[n - 1] = "word" /\ sh[n] = "word"}

Shapes == UNION {ShapesOfLen(n) : n \in 0..MaxBodyLen}

RECURSIVE Flatten(_, _)
Flatten(sh, w) ==
    IF sh = <<>> THEN <<>>
    ELSE (CASE Head(sh) = "marker" -> Marker
            [] Head(sh) = "nl" -> <<NL>>
            [] Head(sh) = "sp" -> <<SP>>
            [] OTHER -> <<w>>) \o Flatten(Tail(sh), w)

\* release bodies: every shape, its words all being the same word
Bodies == {Flatten(sh, w) : sh \in Shapes, w \in Words}

RelResponses ==
    {RelResp(n, "invalid", FALSE, <<>>) : n \in NetFailures}
    \cup {RelResp("ok", j, FALSE, <<>>) : j \in {"invalid", "array", "object"}}
    \cup {RelResp("ok", "object", TRUE, b) : b \in Bodies}

UnknownMeta == MetaResp("unknown", "invalid", FALSE, JNull)
UnknownRel == RelResp("unknown", "invalid", FALSE, <<>>)

(* ------------------------- the functions ------------------------------- *)
NoPayload == [exp |-> 0, repo_id |-> 0]

\* _http_get: the exception class it raises, "none" when it returns text
HttpGet(resp) ==
    CASE resp.net = "urlerror" -> "URLError"
      [] resp.net = "httperror" -> "HTTPError"
      [] resp.net = "timeout" -> "TimeoutError"
      [] OTHER -> "none"

\* _fetch_repo_id: [exc, msg, rid]
FetchRepoId(resp) ==
    LET raised == HttpGet(resp)
        rid == PyInt(IF resp.hasId THEN resp.id ELSE JNull)
    IN  IF raised \in {"URLError", "HTTPError"}
        THEN [exc |-> "AuthorizationError", msg |-> "repo_access", rid |-> 0]
        ELSE IF raised # "none" \/ resp.json # "object" \/ ~rid.ok
        THEN [exc |-> "AuthorizationError", msg |-> "repo_parse", rid |-> 0]
        ELSE [exc |-> "none", msg |-> "none", rid |-> rid.v]

\* _fetch_latest_release_body: [exc, msg, body]
FetchLatestReleaseBody(resp) ==
    LET raised == HttpGet(resp)
    IN  IF raised \in {"URLError", "HTTPError"}
        THEN [exc |-> "AuthorizationError", msg |-> "token_access", body |-> <<>>]
        ELSE IF raised # "none" \/ resp.json # "object"
        THEN [exc |-> "AuthorizationError", msg |-> "token_parse", body |-> <<>>]
        ELSE [exc |-> "none", msg |-> "none",
              body |-> IF resp.hasBody THEN resp.body ELSE <<>>]

\* the text between the marker and the line end, as the code slices it
TokenText(body, start, end) ==
    IF end > start THEN Strip(Slice(body, start, end))
    ELSE Strip(Slice(body, start, Len(body)))

\* base64.b64decode(b64, validate=True), .decode("utf-8"), json.loads:
\* [ok, doc].  ':' and whitespace are outside the base64 alphabet, so only a
\* text that is one word can decode.
DecodeToken(b64) ==
    IF Len(b64) = 1 /\ b64[1].c = "word" /\ b64[1].enc = "json"
    THEN [ok |-> TRUE, doc |-> b64[1].doc]
    ELSE [ok |-> FALSE, doc |-> NoDoc]

ExtractResult(exc, msg, b64, payload) ==
    [exc |-> exc, msg |-> msg, b64 |-> b64, payload |-> payload]

\* _extract_authz_token: [exc, msg, b64, payload]
ExtractAuthzToken(body) ==
    LET found == Find(body, Marker, 0)
        start == found + Len(Marker)
        end == Find(body, <<NL>>, start)
        b64 == TokenText(body, start, end)
        dec == DecodeToken(b64)
        obj == dec.doc
        exp == PyInt(PyGetItem(obj, "exp").v)
        rid == PyInt(PyGetItem(obj, "repo_id").v)
    IN  IF found < 0
        THEN ExtractResult("AuthorizationError", "marker_not_found", <<>>, NoPayload)
        ELSE IF b64 = <<>>
        THEN ExtractResult("AuthorizationError", "token_empty", b64, NoPayload)
        ELSE IF ~dec.ok
        THEN ExtractResult("AuthorizationError", "token_decode", b64, NoPayload)
        ELSE IF PyIn("exp", obj).raises
        THEN ExtractResult("TypeError", "not_iterable", b64, NoPayload)
        ELSE IF \E k \in Keys : ~PyIn(k, obj).v
        THEN ExtractResult("AuthorizationError", "token_missing_field", b64, NoPayload)
        ELSE IF ~PyGetItem(obj, "exp").ok \/ ~exp.ok
                \/ ~PyGetItem(obj, "repo_id").ok \/ ~rid.ok
        THEN ExtractResult("AuthorizationError", "token_field_type", b64, NoPayload)
        ELSE ExtractResult("none", "none", b64, [exp |-> exp.v, repo_id |-> rid.v])

\* variant: the lock compare is left out
LockFails_skipped(rid) == FALSE

\* line 140: the lock compare fails
LockFails(rid) == LockIsSet /\ REPO_ID_LOCK # rid

\* variant: the cross-check is left out
BindFails_skipped(payload, rid) == FALSE

\* line 147: the repo_id cross-check fails
BindFails(payload, rid) == payload.repo_id # rid

\* int(time.time()) at clock tick t
NowAt(t) == t \div TicksPerSec

\* variant: a token expiring in the current second still passes
Expired_strict(exp, now) == exp < now

\* variant: the comparison is the wrong way round
Expired_inverted(exp, now) == exp > now

\* line 125: the token is expired
Expired(exp, now) == exp <= now

(* --------------------------- the state --------------------------------- *)
VARIABLES
    pc,              \* position in ensure_authorized
    wpc,             \* position in block_if_unauthorized_with_ui ("none": not used)
    remoteMeta,      \* what the metadata endpoint answers (unknown until asked)
    remoteRel,       \* what the releases/latest endpoint answers
    clock,           \* wall clock in ticks, as last read
    requests,        \* endpoints requested in the current call, in order
    steps,           \* steps executed in the current call: [step, failed]
    repo_id_actual,  \* local of ensure_authorized
    body,            \* local of ensure_authorized
    b64,             \* local of _extract_authz_token
    payload,         \* local of ensure_authorized
    now,             \* local of _check_exp
    exc,             \* exception class raised in the current call, or "none"
    msg,             \* which message the exception carries
    history,         \* results of the finished direct calls
    dialogs,         \* dialog outcomes of the wrapper, in order
    exitStatus       \* status passed to os._exit, -1 while the process lives

vars == <<pc, wpc, remoteMeta, remoteRel, clock, requests, steps, repo_id_actual,
          body, b64, payload, now, exc, msg, history, dialogs, exitStatus>>

locals == <<repo_id_actual, body, b64, payload, now>>
remote == <<remoteMeta, remoteRel>>
wrapper == <<wpc, dialogs, exitStatus>>

StepOrder == <<"fetch_repo_id", "lock", "fetch_body", "extract", "bind", "check_exp">>

StepAfter(step) ==
    LET i == CHOOSE k \in 1..Len(StepOrder) : StepOrder[k] = step
    IN  IF i = Len(StepOrder) THEN "returned" ELSE StepOrder[i + 1]

\* variant: a failure is noted and the sequence goes on
Advance_continue(step, failed) == StepAfter(step)

\* control flow of ensure_authorized: a raise leaves the function
Advance(step, failed) == IF failed THEN "raised" ELSE StepAfter(step)

\* variant: the wrapper catches AuthorizationError only
Catches_onlyAuthz(e) == e = "AuthorizationError"

\* `except Exception` of the wrapper (line 160)
Catches(e) == e \in {"AuthorizationError", "TypeError"}

\* what creating and showing the dialog can do (lines 162-170)
DialogOutcomes == {"shown", "ImportError", "TclError"}

\* `except Exception: pass` around the dialog (line 171)
DialogCatches(d) == d \in {"ImportError", "TclError"}

Init ==
    /\ pc = "idle"
    /\ wpc = "none"
    /\ remoteMeta = UnknownMeta
    /\ remoteRel = UnknownRel
    /\ clock = 0
    /\ requests = <<>>
    /\ steps = <<>>
    /\ repo_id_actual = 0
    /\ body = <<>>
    /\ b64 = <<>>
    /\ payload = NoPayload
    /\ now = 0
    /\ exc = "none"
    /\ msg = "none"
    /\ history = <<>>
    /\ dialogs = <<>>
    /\ exitStatus = -1

\* entering ensure_authorized: fresh locals
Enter ==
    /\ pc' = "fetch_repo_id"
    /\ requests' = <<>>
    /\ steps' = <<>>
    /\ repo_id_actual' = 0
    /\ body' = <<>>
    /\ b64' = <<>>
    /\ payload' = NoPayload
    /\ now' = 0
    /\ exc' = "none"
    /\ msg' = "none"

\* one step of ensure_authorized ran and failed or not
Ran(step, e, m) ==
    /\ pc = step
    /\ steps' = Append(steps, [step |-> step, failed |-> e # "none"])
    /\ pc' = Advance(step, e # "none")
    /\ exc' = IF e # "none" THEN e ELSE exc
    /\ msg' = IF e # "none" THEN m ELSE msg

\* a caller calls ensure_authorized directly
CallEnsureAuthorized ==
    /\ pc = "idle" /\ wpc = "none"
    /\ Len(history) < MaxCalls
    /\ Enter
    /\ UNCHANGED <<remote, clock, history, wrapper>>

\* line 137: the remote answers anything the first time it is asked, and the
\* same thing from then on
DoFetchRepoId ==
    /\ pc = "fetch_repo_id"
    /\ \E resp \in (IF remoteMeta = UnknownMeta THEN MetaResponses ELSE {remoteMeta}) :
        /\ remoteMeta' = resp
        /\ LET r == FetchRepoId(resp)
           IN  /\ Ran("fetch_repo_id", r.exc, r.msg)
               /\ repo_id_actual' = r.rid
    /\ requests' = Append(requests, "repos")
    /\ UNCHANGED <<remoteRel, clock, body, b64, payload, now, history, wrapper>>

\* lines 140-141
DoLockCompare ==
    /\ Ran("lock", IF LockFails(repo_id_actual) THEN "AuthorizationError" ELSE "none",
           "lock_mismatch")
    /\ UNCHANGED <<remote, clock, requests, locals, history, wrapper>>

\* line 143
DoFetchLatestReleaseBody ==
    /\ pc = "fetch_body"
    /\ \E resp \in (IF remoteRel = UnknownRel THEN RelResponses ELSE {remoteRel}) :
        /\ remoteRel' = resp
        /\ LET r == FetchLatestReleaseBody(resp)
           IN  /\ Ran("fetch_body", r.exc, r.msg)
               /\ body' = r.body
    /\ requests' = Append(requests, "releases/latest")
    /\ UNCHANGED <<remoteMeta, clock, repo_id_actual, b64, payload, now, history, wrapper>>

\* line 144
DoExtractAuthzToken ==
    /\ LET r == ExtractAuthzToken(body)
       IN  /\ Ran("extract", r.exc, r.msg)
           /\ b64' = r.b64
           /\ payload' = r.payload
    /\ UNCHANGED <<remote, clock, requests, repo_id_actual, body, now, history, wrapper>>

\* lines 147-148
DoBindCheck ==
    /\ Ran("bind", IF BindFails(payload, repo_id_actual) THEN "AuthorizationError" ELSE "none",
           "binding_mismatch")
    /\ UNCHANGED <<remote, clock, requests, locals, history, wrapper>>

\* line 150: _check_exp reads the clock, which never runs backwards
DoCheckExp ==
    /\ pc = "check_exp"
    /\ \E t \in clock..MaxClock :
        /\ clock' = t
        /\ now' = NowAt(t)
        /\ Ran("check_exp", IF Expired(payload.exp, NowAt(t)) THEN "AuthorizationError" ELSE "none",
               "expired")
    /\ UNCHANGED <<remote, requests, repo_id_actual, body, b64, payload, history, wrapper>>

\* a direct call is over: its result is all that is left of it
EndCall ==
    /\ wpc = "none"
    /\ pc \in {"returned", "raised"}
    /\ history' = Append(history, [exc |-> exc, msg |-> msg, requests |-> requests,
                                   steps |-> Len(steps), now |-> now, exp |-> payload.exp])
    /\ pc' = "idle"
    /\ UNCHANGED <<remote, clock, requests, steps, locals, exc, msg, wrapper>>

\* line 159: the application calls block_if_unauthorized_with_ui
CallBlockIfUnauthorized ==
    /\ pc = "idle" /\ wpc = "none" /\ history = <<>>
    /\ wpc' = "calling"
    /\ Enter
    /\ UNCHANGED <<remote, clock, history, dialogs, exitStatus>>

\* ensure_authorized returned: the wrapper returns to its caller
WrapperReturn ==
    /\ wpc = "calling" /\ pc = "returned"
    /\ wpc' = "returned"
    /\ UNCHANGED <<pc, remote, clock, requests, steps, locals, exc, msg, history,
                   dialogs, exitStatus>>

\* line 160
WrapperCatch ==
    /\ wpc = "calling" /\ pc = "raised"
    /\ wpc' = IF Catches(exc) THEN "dialog" ELSE "propagated"
    /\ UNCHANGED <<pc, remote, clock, requests, steps, locals, exc, msg, history,
                   dialogs, exitStatus>>

\* lines 161-173
ShowDialog ==
    /\ wpc = "dialog"
    /\ \E d \in DialogOutcomes :
        /\ dialogs' = Append(dialogs, d)
        /\ wpc' = IF d = "shown" \/ DialogCatches(d) THEN "exit" ELSE "propagated"
    /\ UNCHANGED <<pc, remote, clock, requests, steps, locals, exc, msg, history, exitStatus>>

\* line 174
OsExit ==
    /\ wpc = "exit"
    /\ wpc' = "exited"
    /\ exitStatus' = 1
    /\ UNCHANGED <<pc, remote, clock, requests, steps, locals, exc, msg, history, dialogs>>

Next ==
    \/ CallEnsureAuthorized
    \/ DoFetchRepoId
    \/ DoLockCompare
    \/ DoFetchLatestReleaseBody
    \/ DoExtractAuthzToken
    \/ DoBindCheck
    \/ DoCheckExp
    \/ EndCall
    \/ CallBlockIfUnauthorized
    \/ WrapperReturn
    \/ WrapperCatch
    \/ ShowDialog
    \/ OsExit

Spec == Init /\ [][Next]_vars

(* ------------------- vocabulary of the properties ---------------------- *)
Finished == pc \in {"returned", "raised"}

\* the step at position i of StepOrder ran in the current (or last) call
StepRan(i) == Len(steps) >= i

HasMarker(b) == \E i \in 0..Len(b) : IsAt(b, Marker, i)

\* the 1-based positions of a marker-line: where the first marker starts, and
\* where the first newline after it stands (Len + 1 when there is none)
FirstMarkerPos(b) ==
    CHOOSE i \in 1..Len(b) : IsAt(b, Marker, i - 1) /\ \A j \in 1..(i - 1) : ~IsAt(b, Marker, j - 1)

LineEndPos(b, from) ==
    LET nls == {j \in from..Len(b) : b[j] = NL}
    IN  IF nls = {} THEN Len(b) + 1 ELSE CHOOSE j \in nls : \A k \in nls : j <= k

Trimmed(s) ==
    LET ns == {i \in 1..Len(s) : ~IsSpace(s[i])}
    IN  IF ns = {} THEN <<>>
        ELSE SubSeq(s, CHOOSE i \in ns : \A k \in ns : i <= k,
                       CHOOSE i \in ns : \A k \in ns : i >= k)

\* the token as section 4.4 defines it: after the first marker, up to the
\* next newline or the end of the text, whitespace trimmed
MarkerLine(b) ==
    LET from == FirstMarkerPos(b) + Len(Marker)
    IN  Trimmed(SubSeq(b, from, LineEndPos(b, from) - 1))

MetaHasId(v) ==
    /\ remoteMeta.net = "ok" /\ remoteMeta.json = "object"
    /\ remoteMeta.hasId /\ remoteMeta.id = v

RelHasBody ==
    remoteRel.net = "ok" /\ remoteRel.json = "object" /\ remoteRel.hasBody

\* a word that is the base64 of a JSON object with an integer exp and the
\* given integer repo_id
IsValidToken(w, rid) ==
    /\ w.c = "word" /\ w.enc = "json" /\ w.doc.t = "object"
    /\ w.doc.keys = Keys
    /\ w.doc.exp.t = "int"
    /\ w.doc.repo_id = JInt(rid)

(* ------------------------------ C1 ------------------------------------- *)
\* C1: when the lock is set and the metadata request returns a repository id
\* that differs from it, the call fails with AuthorizationError (binding
\* check) and releases/latest is never requested: the run makes exactly one
\* request.
C1_LockMismatchStopsBeforeRelease ==
    (LockIsSet /\ StepRan(1) /\ remoteMeta.net = "ok" /\ remoteMeta.json = "object"
        /\ remoteMeta.hasId /\ remoteMeta.id.t = "int" /\ remoteMeta.id.n # REPO_ID_LOCK)
    => /\ requests = <<"repos">>
       /\ pc \in {"lock", "raised", "idle"}
       /\ pc # "lock" => exc = "AuthorizationError" /\ msg = "lock_mismatch"

C1_Witness ==
    /\ pc = "raised" /\ MetaHasId(JInt(OtherRepoId))
    /\ msg = "lock_mismatch" /\ requests = <<"repos">>

ValidRemote ==
    /\ MetaHasId(JInt(REPO_ID_LOCK))
    /\ RelHasBody /\ HasMarker(remoteRel.body)
    /\ Len(MarkerLine(remoteRel.body)) = 1
    /\ IsValidToken(MarkerLine(remoteRel.body)[1], REPO_ID_LOCK)

TokenExp == MarkerLine(remoteRel.body)[1].doc.exp.n

\* C3: when the metadata id equals the lock and the release body carries,
\* on its marker line, a validly encoded token bound to that id whose exp is
\* greater than the current time, ensure_authorized returns True after
\* exactly the two requests metadata, releases/latest in that order; with
\* such a remote the only failure left is expiry.
C3_ValidTokenSucceeds ==
    (Finished /\ ValidRemote)
    => /\ requests = <<"repos", "releases/latest">>
       /\ TokenExp * TicksPerSec > clock => pc = "returned" /\ exc = "none"
       /\ pc = "raised" => msg = "expired" /\ TokenExp * TicksPerSec <= clock

C3_Witness ==
    /\ pc = "returned" /\ ValidRemote
    /\ remoteRel.body[Len(Marker) + 1] = SP
    /\ requests = <<"repos", "releases/latest">>

(* ------------------------------ C4 ------------------------------------- *)
\* C4: every failing run of ensure_authorized ends in AuthorizationError; no
\* other exception type escapes it, whatever the remote answers.
C4_OnlyAuthorizationError == exc \in {"none", "AuthorizationError"}

(* ------------------------------ C5 ------------------------------------- *)
\* C5: block_if_unauthorized_with_ui returns to its caller only when
\* ensure_authorized returned; when ensure_authorized raised, whatever the
\* exception, the wrapper shows at most one dialog and ends in os._exit(1),
\* a failing dialog included; no exception ever reaches the caller.
C5_FailClosed ==
    /\ wpc = "returned" => pc = "returned" /\ exc = "none" /\ dialogs = <<>>
    /\ wpc # "propagated"
    /\ Len(dialogs) <= 1
    /\ (wpc \notin {"none", "calling"} /\ pc = "raised")
        => wpc \in {"dialog", "exit", "exited"}
    /\ wpc = "exit" => Len(dialogs) = 1
    /\ wpc = "exited" => exitStatus = 1 /\ pc = "raised" /\ Len(dialogs) = 1
    /\ wpc # "exited" => exitStatus = -1

C5_Witness ==
    /\ wpc = "exited" /\ exitStatus = 1
    /\ exc = "TypeError" /\ dialogs = <<"TclError">>

(* ------------------------------ C6 ------------------------------------- *)
\* C6: _check_exp reads the clock truncated to whole seconds and raises
\* AuthorizationError (expired) exactly when exp <= now: exp = now fails,
\* exp = now + 1 passes.
C6_ExpiryBoundary ==
    StepRan(6) =>
        /\ now * TicksPerSec <= clock /\ clock < (now + 1) * TicksPerSec
        /\ steps[6].failed <=> payload.exp <= now
        /\ steps[6].failed => exc = "AuthorizationError" /\ msg = "expired"
        /\ payload.exp = now => steps[6].failed
        /\ payload.exp = now + 1 => ~steps[6].failed /\ exc = "none"

C6_Witness ==
    /\ StepRan(6) /\ pc = "raised"
    /\ payload.exp = now /\ clock # now * TicksPerSec

(* ------------------------------ C7 ------------------------------------- *)
\* C7: for a body with the marker, the text that is decoded is the marker
\* line (after the first marker, up to the next newline or the end,
\* trimmed), and an empty marker line, the marker directly followed by a
\* newline included, fails with AuthorizationError (empty token).
C7_TokenIsMarkerLine ==
    (StepRan(4) /\ HasMarker(body))
    => IF MarkerLine(body) = <<>>
       THEN exc = "AuthorizationError" /\ msg = "token_empty"
       ELSE b64 = MarkerLine(body)

C9_FailFastNoRetry ==
    /\ Len(steps) <= Len(StepOrder)
    /\ \A i \in 1..Len(steps) : steps[i].step = StepOrder[i]
    /\ \A i \in 1..(Len(steps) - 1) : ~steps[i].failed
    /\ requests = (IF StepRan(3) THEN <<"repos", "releases/latest">>
                   ELSE IF StepRan(1) THEN <<"repos">> ELSE <<>>)
    /\ exc # "none" => pc \in {"raised", "idle"} /\ steps[Len(steps)].failed
    /\ pc = "returned" => exc = "none" /\ Len(steps) = Len(StepOrder)

C9_Witness ==
    /\ pc = "raised" /\ Len(steps) = 4 /\ steps[4].failed
    /\ requests = <<"repos", "releases/latest">>

(* ------------------------------ C10 ------------------------------------ *)
\* C10: in both fetchers every network failure, a timeout while the response
\* is read included, is reported as "cannot access", and "cannot parse" is
\* reported only for a response that was received.
C10_NetworkFailureIsAccess ==
    /\ (StepRan(1) /\ remoteMeta.net \in NetFailures) => msg = "repo_access"
    /\ (StepRan(3) /\ remoteRel.net \in NetFailures) => msg = "token_access"
    /\ msg = "repo_parse" => remoteMeta.net = "ok"
    /\ msg = "token_parse" => remoteRel.net = "ok"

====
